---- MODULE Spec2Model ----
(***************************************************************************)
(* State-machine model of the QA sandbox REST API: the four tables (users, *)
(* categories, products, orders) with the order_items association, the     *)
(* seed/reset engine, the startup hook and the route handlers of           *)
(* src/routers.  Each handler is one atomic action (one request, one       *)
(* commit).  Prices are integer cents; free-text payload fields that no    *)
(* handler branches on (description, full_name, notes) are left out.       *)
(***************************************************************************)
EXTENDS Integers, Sequences, FiniteSets, TLC

VARIABLES
    pc,           \* "boot" before the lifespan hook has run, "running" after
    users,        \* users table:      id -> row
    categories,   \* categories table: id -> row
    products,     \* products table:   id -> row
    orders,       \* orders table:     id -> row
    order_items,  \* association table: set of <<order_id, product_id>>
    seqs,         \* last value handed out by each table's id sequence
    tokens,       \* access tokens issued so far: [sub, role]
    resp,         \* the request handled last and its response
    nreq,         \* number of requests handled and restarts since the first process start
    procs         \* per worker thread: the request it is in the middle of, if any

vars == <<pc, users, categories, products, orders, order_items, seqs, tokens, resp, nreq, procs>>
store == <<users, categories, products, orders, order_items>>

----------------------------------------------------------------------------
(* Bounds of the model *)

\* requests handled (and process restarts) in one behaviour
MaxReq == 2
\* outcomes of the random draws of seed_database that are explored
MaxDraw == 1

----------------------------------------------------------------------------
(* Enumerations and small helpers *)

UserRole == {"admin", "tester", "viewer"}

OrderStatus == <<"pending", "confirmed", "shipped", "delivered", "cancelled">>

StatusSet == {OrderStatus[i] : i \in 1..Len(OrderStatus)}

\* Optional values: None is the empty set, Some(x) the singleton
None == {}
Some(x) == {x}
The(o) == CHOOSE x \in o : TRUE

\* Python truthiness of an optional integer: None and 0 are falsy
Truthy(o) == o # None /\ o # Some(0)

Max(S) == CHOOSE m \in S : \A x \in S : x <= m
Min2(a, b) == IF a <= b THEN a ELSE b

RECURSIVE SumOver(_, _)
SumOver(f, S) == IF S = {} THEN 0
                 ELSE LET x == CHOOSE y \in S : TRUE IN f[x] + SumOver(f, S \ {x})

RECURSIVE DescSeq(_)
DescSeq(S) == IF S = {} THEN <<>>
              ELSE LET m == Max(S) IN <<m>> \o DescSeq(S \ {m})

SeqSet(s) == {s[i] : i \in 1..Len(s)}

\* .offset(skip).limit(limit) applied to an ordered result
Page(s, skip, limit) == SubSeq(s, skip + 1, Min2(Len(s), skip + limit))

\* get_password_hash / verify_password: an opaque one-way function with verify
get_password_hash(pw) == <<"hash", pw>>
verify_password(pw, hashed) == hashed = get_password_hash(pw)

----------------------------------------------------------------------------
(* Seed data: src/seed.py *)

SeedUsers == <<
    [email |-> "admin@qa-test.com",  username |-> "admin",
     hashed_password |-> get_password_hash("admin123"),  role |-> "admin",  is_active |-> TRUE],
    [email |-> "tester@qa-test.com", username |-> "tester",
     hashed_password |-> get_password_hash("tester123"), role |-> "tester", is_active |-> TRUE],
    [email |-> "viewer@qa-test.com", username |-> "viewer",
     hashed_password |-> get_password_hash("viewer123"), role |-> "viewer", is_active |-> TRUE] >>

category_data == <<"Electronics", "Clothing", "Home & Garden", "Books", "Sports">>

\* (name, category, price in cents, stock)
product_templates == <<
    <<"Laptop Pro 15",       "Electronics",   129999, 15>>,
    <<"Wireless Mouse",      "Electronics",     4999, 100>>,
    <<"USB-C Hub",           "Electronics",     7999, 50>>,
    <<"Mechanical Keyboard", "Electronics",    14999, 30>>,
    <<"4K Monitor",          "Electronics",    39999, 20>>,
    <<"Cotton T-Shirt",      "Clothing",        2499, 200>>,
    <<"Denim Jeans",         "Clothing",        5999, 150>>,
    <<"Running Shoes",       "Clothing",        8999, 75>>,
    <<"Winter Jacket",       "Clothing",       14999, 40>>,
    <<"Desk Lamp",           "Home & Garden",   3499, 80>>,
    <<"Office Chair",        "Home & Garden",  24999, 25>>,
    <<"Plant Pot Set",       "Home & Garden",   2999, 120>>,
    <<"Coffee Table",        "Home & Garden",  19999, 15>>,
    <<"Python Cookbook",     "Books",           4499, 60>>,
    <<"Design Patterns",     "Books",           4999, 45>>,
    <<"Clean Code",          "Books",           3999, 70>>,
    <<"Yoga Mat",            "Sports",          2999, 90>>,
    <<"Dumbbells Set",       "Sports",          7999, 35>>,
    <<"Tennis Racket",       "Sports",         12999, 20>>,
    <<"Soccer Ball",         "Sports",          2499, 100>> >>

\* number of orders seed_database creates
SeedOrderCount == 10

\* f"SKU-{i:04d}"
SeedSku(i) == <<"SKU", i>>

\* f"ORD-{uuid4().hex[:8].upper()}": a fresh identifier per order
OrderNumber(n) == <<"ORD", n>>

\* One outcome of the random draws of seed_database: for order i (0-based) a set of
\* 1..4 distinct indexes into the product list.
Draw(k) == [i \in 0..(SeedOrderCount - 1) |->
              {((i * k + j) % Len(product_templates)) + 1 : j \in 0..((i + k) % 4)}]

Draws == {Draw(k) : k \in 1..MaxDraw}

----------------------------------------------------------------------------
(* Seed/reset engine: src/seed.py *)

DB == [users |-> users, categories |-> categories, products |-> products,
       orders |-> orders, order_items |-> order_items]

EmptyDB == [users |-> << >>, categories |-> << >>, products |-> << >>,
            orders |-> << >>, order_items |-> {}]

\* clear_database: bulk delete of orders (its order_items rows go with it through
\* ON DELETE CASCADE), products, categories, users, then one commit.  The id
\* sequences are not reset.
\* A plausible slip: the orders table is not emptied
clear_database_keeps_orders(db) == [EmptyDB EXCEPT !.orders = db.orders]

clear_database(db) == EmptyDB

\* Outcome of seed_database(db) for one outcome of its random draws: the store after
\* the last commit that went through, the sequences, and whether all four commits
\* went through.  A commit that violates a unique constraint raises and leaves the
\* earlier commits in place.
seed_database(db, sq, draw) ==
    LET nu == Len(SeedUsers)
        nc == Len(category_data)
        np == Len(product_templates)
        newUsers == [i \in (sq.user + 1)..(sq.user + nu) |-> SeedUsers[i - sq.user]]
        usersOK == \A i \in DOMAIN db.users : \A j \in DOMAIN newUsers :
                       /\ db.users[i].email # newUsers[j].email
                       /\ db.users[i].username # newUsers[j].username
        newCats == [i \in (sq.category + 1)..(sq.category + nc) |->
                       [name |-> category_data[i - sq.category], is_active |-> TRUE]]
        catsOK == \A i \in DOMAIN db.categories : \A j \in DOMAIN newCats :
                       db.categories[i].name # newCats[j].name
        cat_map(name) == CHOOSE c \in DOMAIN newCats : newCats[c].name = name
        newProds == [i \in (sq.product + 1)..(sq.product + np) |->
                       LET t == product_templates[i - sq.product] IN
                       [name |-> t[1], price |-> t[3], stock |-> t[4],
                        sku |-> SeedSku(i - sq.product), is_active |-> TRUE,
                        category_id |-> Some(cat_map(t[2]))]]
        prodsOK == \A i \in DOMAIN db.products : \A j \in DOMAIN newProds :
                       db.products[i].sku # newProds[j].sku
        order_products(i) == {sq.product + x : x \in draw[i]}
        newOrders == [o \in (sq.order + 1)..(sq.order + SeedOrderCount) |->
                       LET i == o - sq.order - 1 IN
                       [order_number |-> OrderNumber(o),
                        user_id |-> sq.user + (i % nu) + 1,
                        status |-> OrderStatus[(i % Len(OrderStatus)) + 1],
                        total_amount |-> SumOver([p \in DOMAIN newProds |-> newProds[p].price],
                                                 order_products(i)),
                        shipping_address |-> "seed address"]]
        newItems == UNION {{<<o, p>> : p \in order_products(o - sq.order - 1)} :
                              o \in DOMAIN newOrders}
        sq1 == [sq EXCEPT !.user = @ + nu]
        sq2 == [sq1 EXCEPT !.category = @ + nc]
        sq3 == [sq2 EXCEPT !.product = @ + np]
        sq4 == [sq3 EXCEPT !.order = @ + SeedOrderCount]
        db1 == [db EXCEPT !.users = @ @@ newUsers]
        db2 == [db1 EXCEPT !.categories = @ @@ newCats]
        db3 == [db2 EXCEPT !.products = @ @@ newProds]
        db4 == [db3 EXCEPT !.orders = @ @@ newOrders, !.order_items = @ \cup newItems]
    IN  IF ~usersOK THEN [ok |-> FALSE, db |-> db, seqs |-> sq1]
        ELSE IF ~catsOK THEN [ok |-> FALSE, db |-> db1, seqs |-> sq2]
        ELSE IF ~prodsOK THEN [ok |-> FALSE, db |-> db2, seqs |-> sq3]
        ELSE [ok |-> TRUE, db |-> db4, seqs |-> sq4]

\* Assignment of a whole store to the table variables
SetStore(db) ==
    /\ users' = db.users
    /\ categories' = db.categories
    /\ products' = db.products
    /\ orders' = db.orders
    /\ order_items' = db.order_items

----------------------------------------------------------------------------
(* Requests and responses *)

\* The request handled and its response: operation, HTTP status, the caller as the
\* token service yielded it (role "anon", id 0 for an unauthenticated request), the
\* id in the path or of the created row (0 if none), the request inputs, the error
\* detail, the ids the response enumerates and the token the request carried.
Response(op, status, cu, target, req, detail, ids) ==
    [op |-> op, status |-> status, role |-> cu.role, uid |-> cu.id,
     target |-> target, req |-> req, detail |-> detail, ids |-> ids, tok |-> cu.tok]

\* The payload of no token
NoToken == [sub |-> 0, role |-> "anon"]

Anon == [ok |-> TRUE, id |-> 0, role |-> "anon", tok |-> NoToken]

\* The requester of a request whose token was refused
Unauthenticated(tok) == [Anon EXCEPT !.tok = tok]

NoReq == [none |-> TRUE]

\* Worker threads of the server that handle requests at the same time
Workers == {"w1", "w2"}

\* A worker between requests.  A worker in a request holds the operation, the step
\* it is to take next, the requester its dependencies resolved, the id in the path,
\* and for a reset the draws and the first ids of the rows its session has added.
Idle == [op |-> "idle", step |-> "", cu |-> Anon, target |-> 0, draw |-> << >>,
         ubase |-> 0, cbase |-> 0, pbase |-> 0]

\* A request answered without touching the store
Reply(op, status, cu, target, req, detail, ids) ==
    /\ resp' = Response(op, status, cu, target, req, detail, ids)
    /\ nreq' = nreq + 1
    /\ UNCHANGED <<pc, store, seqs, tokens, procs>>

\* A request answered after a commit; the caller sets the table variables
Commit(op, status, cu, target, req, detail, ids) ==
    /\ resp' = Response(op, status, cu, target, req, detail, ids)
    /\ nreq' = nreq + 1
    /\ UNCHANGED <<pc, tokens, procs>>

----------------------------------------------------------------------------
(* Initial state and process start: src/main.py *)

Init ==
    /\ pc = "boot"
    /\ users = << >>
    /\ categories = << >>
    /\ products = << >>
    /\ orders = << >>
    /\ order_items = {}
    /\ seqs = [user |-> 0, category |-> 0, product |-> 0, order |-> 0]
    /\ tokens = {}
    /\ resp = Response("none", 0, Anon, 0, NoReq, "", {})
    /\ nreq = 0
    /\ procs = [w \in Workers |-> Idle]

\* A plausible slip: the seed runs at every start, without the emptiness test
lifespan_always_seeds(draw) ==
    /\ pc = "boot"
    /\ LET r == seed_database(DB, seqs, draw) IN
       /\ SetStore(r.db)
       /\ seqs' = r.seqs
       /\ pc' = IF r.ok THEN "running" ELSE "failed"
       /\ resp' = Response("lifespan", IF r.ok THEN 200 ELSE 500, Anon, 0, NoReq, "seeded", {})
    /\ UNCHANGED <<tokens, nreq, procs>>

\* lifespan: seed the database if the users table is empty
lifespan(draw) ==
    /\ pc = "boot"
    /\ IF Cardinality(DOMAIN users) = 0
       THEN LET r == seed_database(DB, seqs, draw) IN
            /\ SetStore(r.db)
            /\ seqs' = r.seqs
            /\ pc' = IF r.ok THEN "running" ELSE "failed"
            /\ resp' = Response("lifespan", IF r.ok THEN 200 ELSE 500, Anon, 0, NoReq, "seeded", {})
       ELSE /\ UNCHANGED <<store, seqs>>
            /\ pc' = "running"
            /\ resp' = Response("lifespan", 200, Anon, 0, NoReq, "", {})
    /\ UNCHANGED <<tokens, nreq, procs>>

\* The process is stopped and started again; the database persists, the requests
\* in progress are dropped
restart ==
    /\ pc = "running"
    /\ pc' = "boot"
    /\ nreq' = nreq + 1
    /\ resp' = Response("restart", 0, Anon, 0, NoReq, "", {})
    /\ procs' = [w \in Workers |-> Idle]
    /\ UNCHANGED <<store, seqs, tokens>>

----------------------------------------------------------------------------
(* Token service and role dependencies (src/auth.py) *)

\* create_access_token({"sub": id, "role": role}): the signed payload
create_access_token(sub, role) == [sub |-> sub, role |-> role]

\* get_current_user: validates the token and yields the requester: the subject of
\* the token, who must be a row of the users table, with the role the token carries.
\* The token service with the role read from the live user record and a deactivated
\* user refused, in place of the payload of the token
get_current_user_live(tok) ==
    [ok |-> tok \in tokens /\ tok.sub \in DOMAIN users /\ users[tok.sub].is_active,
     id |-> tok.sub,
     role |-> IF tok.sub \in DOMAIN users THEN users[tok.sub].role ELSE "anon",
     tok |-> tok]

get_current_user(tok) ==
    [ok |-> tok \in tokens /\ tok.sub \in DOMAIN users, id |-> tok.sub, role |-> tok.role,
     tok |-> tok]

require_any(cu) == cu.role \in {"admin", "tester", "viewer"}
require_tester(cu) == cu.role \in {"admin", "tester"}
require_admin(cu) == cu.role = "admin"

\* Rows of a table that satisfy a predicate given as a set of ids
Restrict(f, S) == [x \in S |-> f[x]]

\* setattr(row, key, value) for every key of the supplied (exclude_unset) fields
Patch(row, data) == [f \in DOMAIN row |-> IF f \in DOMAIN data THEN data[f] ELSE row[f]]

----------------------------------------------------------------------------
(* src/routers/auth.py *)

\* A plausible slip: the is_active test placed before the password verification
authenticate_active_first(username, password) ==
    LET found == {u \in DOMAIN users : users[u].username = username} IN
    IF found = {}
    THEN [status |-> 401, sub |-> 0, role |-> "anon", detail |-> "Invalid username or password"]
    ELSE IF ~users[The(found)].is_active
    THEN [status |-> 403, sub |-> The(found), role |-> "anon", detail |-> "User account is deactivated"]
    ELSE IF ~verify_password(password, users[The(found)].hashed_password)
    THEN [status |-> 401, sub |-> 0, role |-> "anon", detail |-> "Invalid username or password"]
    ELSE [status |-> 200, sub |-> The(found), role |-> users[The(found)].role, detail |-> ""]

\* The outcome of login for a username and password in the current store
authenticate(username, password) ==
    LET found == {u \in DOMAIN users : users[u].username = username} IN
    IF found = {} \/ ~verify_password(password, users[The(found)].hashed_password)
    THEN [status |-> 401, sub |-> 0, role |-> "anon", detail |-> "Invalid username or password"]
    ELSE IF ~users[The(found)].is_active
    THEN [status |-> 403, sub |-> The(found), role |-> "anon", detail |-> "User account is deactivated"]
    ELSE [status |-> 200, sub |-> The(found), role |-> users[The(found)].role, detail |-> ""]

login(username, password) ==
    /\ pc = "running"
    /\ LET a == authenticate(username, password)
           req == [username |-> username, password |-> password]
       IN  IF a.status # 200
           THEN Reply("login", a.status, Anon, a.sub, req, a.detail, {})
           ELSE /\ tokens' = tokens \cup {create_access_token(a.sub, a.role)}
                /\ resp' = Response("login", 200, Anon, a.sub, req, a.role, {})
                /\ UNCHANGED <<pc, store, seqs, nreq, procs>>

\* A plausible slip: only the email is checked before the insert
register_skips_username(user_data) ==
    /\ pc = "running"
    /\ IF \E u \in DOMAIN users : users[u].email = user_data.email
       THEN Reply("register", 400, Anon, 0, user_data, "Email already registered", {})
       ELSE LET id == seqs.user + 1 IN
            /\ users' = users @@ (id :> [email |-> user_data.email,
                                         username |-> user_data.username,
                                         hashed_password |-> get_password_hash(user_data.password),
                                         role |-> user_data.role,
                                         is_active |-> TRUE])
            /\ seqs' = [seqs EXCEPT !.user = id]
            /\ UNCHANGED <<categories, products, orders, order_items>>
            /\ Commit("register", 201, Anon, id, user_data, "", {})

register(user_data) ==
    /\ pc = "running"
    /\ IF \E u \in DOMAIN users : users[u].email = user_data.email
       THEN Reply("register", 400, Anon, 0, user_data, "Email already registered", {})
       ELSE IF \E u \in DOMAIN users : users[u].username = user_data.username
       THEN Reply("register", 400, Anon, 0, user_data, "Username already taken", {})
       ELSE LET id == seqs.user + 1 IN
            /\ users' = users @@ (id :> [email |-> user_data.email,
                                         username |-> user_data.username,
                                         hashed_password |-> get_password_hash(user_data.password),
                                         role |-> user_data.role,
                                         is_active |-> TRUE])
            /\ seqs' = [seqs EXCEPT !.user = id]
            /\ UNCHANGED <<categories, products, orders, order_items>>
            /\ Commit("register", 201, Anon, id, user_data, "", {})

get_me(tok) ==
    /\ pc = "running"
    /\ LET cu == get_current_user(tok) IN
       IF ~cu.ok THEN Reply("get_me", 401, Unauthenticated(tok), 0, NoReq, "", {})
       ELSE Reply("get_me", 200, cu, cu.id, NoReq, "", {})

----------------------------------------------------------------------------
(* src/routers/users.py *)

list_users(tok, role, is_active) ==
    /\ pc = "running"
    /\ LET cu == get_current_user(tok)
           req == [role |-> role, is_active |-> is_active]
       IN  IF ~cu.ok THEN Reply("list_users", 401, Unauthenticated(tok), 0, req, "", {})
           ELSE IF ~require_any(cu) THEN Reply("list_users", 403, cu, 0, req, "", {})
           ELSE Reply("list_users", 200, cu, 0, req, "",
                      {u \in DOMAIN users :
                          /\ role # None => users[u].role = The(role)
                          /\ is_active # None => users[u].is_active = The(is_active)})

get_user(tok, user_id) ==
    /\ pc = "running"
    /\ LET cu == get_current_user(tok) IN
       IF ~cu.ok THEN Reply("get_user", 401, Unauthenticated(tok), user_id, NoReq, "", {})
       ELSE IF ~require_any(cu) THEN Reply("get_user", 403, cu, user_id, NoReq, "", {})
       ELSE IF user_id \notin DOMAIN users
       THEN Reply("get_user", 404, cu, user_id, NoReq, "User not found", {})
       ELSE Reply("get_user", 200, cu, user_id, NoReq, "", {})

update_user(tok, user_id, user_data) ==
    /\ pc = "running"
    /\ LET cu == get_current_user(tok) IN
       IF ~cu.ok THEN Reply("update_user", 401, Unauthenticated(tok), user_id, user_data, "", {})
       ELSE IF ~require_admin(cu) THEN Reply("update_user", 403, cu, user_id, user_data, "", {})
       ELSE IF user_id \notin DOMAIN users
       THEN Reply("update_user", 404, cu, user_id, user_data, "User not found", {})
       ELSE IF /\ "email" \in DOMAIN user_data
               /\ \E u \in DOMAIN users : users[u].email = user_data.email /\ u # user_id
       THEN Reply("update_user", 400, cu, user_id, user_data, "Email already in use", {})
       ELSE IF /\ "username" \in DOMAIN user_data
               /\ \E u \in DOMAIN users : users[u].username = user_data.username /\ u # user_id
       THEN Reply("update_user", 400, cu, user_id, user_data, "Username already in use", {})
       ELSE /\ users' = [users EXCEPT ![user_id] = Patch(@, user_data)]
            /\ UNCHANGED <<categories, products, orders, order_items, seqs>>
            /\ Commit("update_user", 200, cu, user_id, user_data, "", {})

\* A plausible slip: the relationship declared without the delete cascade, so the
\* orders of the deleted user stay behind
delete_user_no_cascade(tok, user_id) ==
    /\ pc = "running"
    /\ LET cu == get_current_user(tok) IN
       IF ~cu.ok THEN Reply("delete_user", 401, Unauthenticated(tok), user_id, NoReq, "", {})
       ELSE IF ~require_admin(cu) THEN Reply("delete_user", 403, cu, user_id, NoReq, "", {})
       ELSE IF user_id = cu.id
       THEN Reply("delete_user", 400, cu, user_id, NoReq, "Cannot delete yourself", {})
       ELSE IF user_id \notin DOMAIN users
       THEN Reply("delete_user", 404, cu, user_id, NoReq, "User not found", {})
       ELSE /\ users' = Restrict(users, DOMAIN users \ {user_id})
            /\ UNCHANGED <<categories, products, orders, order_items, seqs>>
            /\ Commit("delete_user", 204, cu, user_id, NoReq, "", {})

\* A plausible slip: the handler without the self-delete check
delete_user_allows_self(tok, user_id) ==
    /\ pc = "running"
    /\ LET cu == get_current_user(tok) IN
       IF ~cu.ok THEN Reply("delete_user", 401, Unauthenticated(tok), user_id, NoReq, "", {})
       ELSE IF ~require_admin(cu) THEN Reply("delete_user", 403, cu, user_id, NoReq, "", {})
       ELSE IF user_id \notin DOMAIN users
       THEN Reply("delete_user", 404, cu, user_id, NoReq, "User not found", {})
       ELSE LET gone == {o \in DOMAIN orders : orders[o].user_id = user_id} IN
            /\ users' = Restrict(users, DOMAIN users \ {user_id})
            /\ orders' = Restrict(orders, DOMAIN orders \ gone)
            /\ order_items' = {it \in order_items : it[1] \notin gone}
            /\ UNCHANGED <<categories, products, seqs>>
            /\ Commit("delete_user", 204, cu, user_id, NoReq, "", {})

\* db.delete(user): the ORM cascade "all, delete-orphan" deletes the user's orders,
\* and their order_items rows go with them
delete_user(tok, user_id) ==
    /\ pc = "running"
    /\ LET cu == get_current_user(tok) IN
       IF ~cu.ok THEN Reply("delete_user", 401, Unauthenticated(tok), user_id, NoReq, "", {})
       ELSE IF ~require_admin(cu) THEN Reply("delete_user", 403, cu, user_id, NoReq, "", {})
       ELSE IF user_id = cu.id
       THEN Reply("delete_user", 400, cu, user_id, NoReq, "Cannot delete yourself", {})
       ELSE IF user_id \notin DOMAIN users
       THEN Reply("delete_user", 404, cu, user_id, NoReq, "User not found", {})
       ELSE LET gone == {o \in DOMAIN orders : orders[o].user_id = user_id} IN
            /\ users' = Restrict(users, DOMAIN users \ {user_id})
            /\ orders' = Restrict(orders, DOMAIN orders \ gone)
            /\ order_items' = {it \in order_items : it[1] \notin gone}
            /\ UNCHANGED <<categories, products, seqs>>
            /\ Commit("delete_user", 204, cu, user_id, NoReq, "", {})

\* delete_user as the two steps a worker takes: the dependencies are resolved
\* (get_current_user, require_admin), then the body runs with the requester they
\* yielded.  Requests of other workers may be served between the two.
delete_user_begin(w, tok, user_id) ==
    /\ pc = "running"
    /\ procs[w] = Idle
    /\ LET cu == get_current_user(tok) IN
       /\ cu.ok
       /\ require_admin(cu)
       /\ procs' = [procs EXCEPT ![w] = [Idle EXCEPT !.op = "delete_user", !.step = "body",
                                                     !.cu = cu, !.target = user_id]]
    /\ UNCHANGED <<pc, store, seqs, tokens, resp, nreq>>

delete_user_body(w) ==
    /\ pc = "running"
    /\ procs[w].op = "delete_user" /\ procs[w].step = "body"
    /\ LET cu == procs[w].cu
           user_id == procs[w].target
           gone == {o \in DOMAIN orders : orders[o].user_id = user_id}
       IN  /\ resp' = Response("delete_user",
                               IF user_id = cu.id THEN 400
                               ELSE IF user_id \notin DOMAIN users THEN 404 ELSE 204,
                               cu, user_id, NoReq,
                               IF user_id = cu.id THEN "Cannot delete yourself"
                               ELSE IF user_id \notin DOMAIN users THEN "User not found" ELSE "",
                               {})
           /\ IF user_id # cu.id /\ user_id \in DOMAIN users
              THEN /\ users' = Restrict(users, DOMAIN users \ {user_id})
                   /\ orders' = Restrict(orders, DOMAIN orders \ gone)
                   /\ order_items' = {it \in order_items : it[1] \notin gone}
              ELSE UNCHANGED <<users, orders, order_items>>
    /\ nreq' = nreq + 1
    /\ procs' = [procs EXCEPT ![w] = Idle]
    /\ UNCHANGED <<pc, categories, products, seqs, tokens>>

----------------------------------------------------------------------------
(* src/routers/categories.py *)

list_categories(tok, is_active) ==
    /\ pc = "running"
    /\ LET cu == get_current_user(tok)
           req == [is_active |-> is_active]
       IN  IF ~cu.ok THEN Reply("list_categories", 401, Unauthenticated(tok), 0, req, "", {})
           ELSE IF ~require_any(cu) THEN Reply("list_categories", 403, cu, 0, req, "", {})
           ELSE Reply("list_categories", 200, cu, 0, req, "",
                      {c \in DOMAIN categories :
                          is_active # None => categories[c].is_active = The(is_active)})

create_category(tok, data) ==
    /\ pc = "running"
    /\ LET cu == get_current_user(tok) IN
       IF ~cu.ok THEN Reply("create_category", 401, Unauthenticated(tok), 0, data, "", {})
       ELSE IF ~require_tester(cu) THEN Reply("create_category", 403, cu, 0, data, "", {})
       ELSE IF \E c \in DOMAIN categories : categories[c].name = data.name
       THEN Reply("create_category", 400, cu, 0, data, "Category name already exists", {})
       ELSE LET id == seqs.category + 1 IN
            /\ categories' = categories @@ (id :> [name |-> data.name, is_active |-> TRUE])
            /\ seqs' = [seqs EXCEPT !.category = id]
            /\ UNCHANGED <<users, products, orders, order_items>>
            /\ Commit("create_category", 201, cu, id, data, "", {})

get_category(tok, category_id) ==
    /\ pc = "running"
    /\ LET cu == get_current_user(tok) IN
       IF ~cu.ok THEN Reply("get_category", 401, Unauthenticated(tok), category_id, NoReq, "", {})
       ELSE IF ~require_any(cu) THEN Reply("get_category", 403, cu, category_id, NoReq, "", {})
       ELSE IF category_id \notin DOMAIN categories
       THEN Reply("get_category", 404, cu, category_id, NoReq, "Category not found", {})
       ELSE Reply("get_category", 200, cu, category_id, NoReq, "", {})

update_category(tok, category_id, data) ==
    /\ pc = "running"
    /\ LET cu == get_current_user(tok) IN
       IF ~cu.ok THEN Reply("update_category", 401, Unauthenticated(tok), category_id, data, "", {})
       ELSE IF ~require_tester(cu) THEN Reply("update_category", 403, cu, category_id, data, "", {})
       ELSE IF category_id \notin DOMAIN categories
       THEN Reply("update_category", 404, cu, category_id, data, "Category not found", {})
       ELSE IF /\ "name" \in DOMAIN data
               /\ \E c \in DOMAIN categories : categories[c].name = data.name /\ c # category_id
       THEN Reply("update_category", 400, cu, category_id, data, "Category name already exists", {})
       ELSE /\ categories' = [categories EXCEPT ![category_id] = Patch(@, data)]
            /\ UNCHANGED <<users, products, orders, order_items, seqs>>
            /\ Commit("update_category", 200, cu, category_id, data, "", {})

\* The products of a deleted category: category_id is set to NULL (the relationship
\* has no delete cascade, and the foreign key is ON DELETE SET NULL)
\* A plausible slip: the delete cascades to the products of the category
nullify_category_cascade(prods, category_id) ==
    Restrict(prods, {p \in DOMAIN prods : prods[p].category_id # Some(category_id)})

nullify_category(prods, category_id) ==
    [p \in DOMAIN prods |->
        IF prods[p].category_id = Some(category_id)
        THEN [prods[p] EXCEPT !.category_id = None]
        ELSE prods[p]]

delete_category(tok, category_id) ==
    /\ pc = "running"
    /\ LET cu == get_current_user(tok) IN
       IF ~cu.ok THEN Reply("delete_category", 401, Unauthenticated(tok), category_id, NoReq, "", {})
       ELSE IF ~require_tester(cu) THEN Reply("delete_category", 403, cu, category_id, NoReq, "", {})
       ELSE IF category_id \notin DOMAIN categories
       THEN Reply("delete_category", 404, cu, category_id, NoReq, "Category not found", {})
       ELSE /\ categories' = Restrict(categories, DOMAIN categories \ {category_id})
            /\ products' = nullify_category(products, category_id)
            /\ UNCHANGED <<users, orders, order_items, seqs>>
            /\ Commit("delete_category", 204, cu, category_id, NoReq, "", {})

----------------------------------------------------------------------------
(* src/routers/products.py *)

list_products(tok, is_active, category_id) ==
    /\ pc = "running"
    /\ LET cu == get_current_user(tok)
           req == [is_active |-> is_active, category_id |-> category_id]
       IN  IF ~cu.ok THEN Reply("list_products", 401, Unauthenticated(tok), 0, req, "", {})
           ELSE IF ~require_any(cu) THEN Reply("list_products", 403, cu, 0, req, "", {})
           ELSE Reply("list_products", 200, cu, 0, req, "",
                      {p \in DOMAIN products :
                          /\ is_active # None => products[p].is_active = The(is_active)
                          /\ category_id # None => products[p].category_id = category_id})

\* The foreign key products.category_id -> categories.id, checked at commit
category_fk_ok(category_id) == category_id = None \/ The(category_id) \in DOMAIN categories

create_product(tok, data) ==
    /\ pc = "running"
    /\ LET cu == get_current_user(tok) IN
       IF ~cu.ok THEN Reply("create_product", 401, Unauthenticated(tok), 0, data, "", {})
       ELSE IF ~require_tester(cu) THEN Reply("create_product", 403, cu, 0, data, "", {})
       ELSE IF \E p \in DOMAIN products : products[p].sku = data.sku
       THEN Reply("create_product", 400, cu, 0, data, "SKU already exists", {})
       ELSE IF Truthy(data.category_id) /\ The(data.category_id) \notin DOMAIN categories
       THEN Reply("create_product", 400, cu, 0, data, "Category not found", {})
       ELSE LET id == seqs.product + 1 IN
            /\ seqs' = [seqs EXCEPT !.product = id]
            /\ UNCHANGED <<users, categories, orders, order_items>>
            /\ IF category_fk_ok(data.category_id)
               THEN /\ products' = products @@ (id :> [name |-> data.name, price |-> data.price,
                                                       stock |-> data.stock, sku |-> data.sku,
                                                       is_active |-> TRUE,
                                                       category_id |-> data.category_id])
                    /\ Commit("create_product", 201, cu, id, data, "", {})
               ELSE /\ UNCHANGED products
                    /\ Commit("create_product", 500, cu, 0, data, "IntegrityError", {})

get_product(tok, product_id) ==
    /\ pc = "running"
    /\ LET cu == get_current_user(tok) IN
       IF ~cu.ok THEN Reply("get_product", 401, Unauthenticated(tok), product_id, NoReq, "", {})
       ELSE IF ~require_any(cu) THEN Reply("get_product", 403, cu, product_id, NoReq, "", {})
       ELSE IF product_id \notin DOMAIN products
       THEN Reply("get_product", 404, cu, product_id, NoReq, "Product not found", {})
       ELSE Reply("get_product", 200, cu, product_id, NoReq, "", {})

update_product(tok, product_id, data) ==
    /\ pc = "running"
    /\ LET cu == get_current_user(tok) IN
       IF ~cu.ok THEN Reply("update_product", 401, Unauthenticated(tok), product_id, data, "", {})
       ELSE IF ~require_tester(cu) THEN Reply("update_product", 403, cu, product_id, data, "", {})
       ELSE IF product_id \notin DOMAIN products
       THEN Reply("update_product", 404, cu, product_id, data, "Product not found", {})
       ELSE IF /\ "sku" \in DOMAIN data
               /\ \E p \in DOMAIN products : products[p].sku = data.sku /\ p # product_id
       THEN Reply("update_product", 400, cu, product_id, data, "SKU already exists", {})
       ELSE IF /\ "category_id" \in DOMAIN data
               /\ Truthy(data.category_id)
               /\ The(data.category_id) \notin DOMAIN categories
       THEN Reply("update_product", 400, cu, product_id, data, "Category not found", {})
       ELSE IF "category_id" \in DOMAIN data /\ ~category_fk_ok(data.category_id)
       THEN Reply("update_product", 500, cu, product_id, data, "IntegrityError", {})
       ELSE /\ products' = [products EXCEPT ![product_id] = Patch(@, data)]
            /\ UNCHANGED <<users, categories, orders, order_items, seqs>>
            /\ Commit("update_product", 200, cu, product_id, data, "", {})

\* A plausible slip: the totals of the orders that held the product are recomputed
delete_product_recomputes(tok, product_id) ==
    /\ pc = "running"
    /\ LET cu == get_current_user(tok) IN
       IF ~cu.ok THEN Reply("delete_product", 401, Unauthenticated(tok), product_id, NoReq, "", {})
       ELSE IF ~require_tester(cu) THEN Reply("delete_product", 403, cu, product_id, NoReq, "", {})
       ELSE IF product_id \notin DOMAIN products
       THEN Reply("delete_product", 404, cu, product_id, NoReq, "Product not found", {})
       ELSE /\ products' = Restrict(products, DOMAIN products \ {product_id})
            /\ order_items' = {it \in order_items : it[2] # product_id}
            /\ orders' = [o \in DOMAIN orders |->
                             IF <<o, product_id>> \in order_items
                             THEN [orders[o] EXCEPT !.total_amount = @ - products[product_id].price]
                             ELSE orders[o]]
            /\ UNCHANGED <<users, categories, seqs>>
            /\ Commit("delete_product", 204, cu, product_id, NoReq, "", {})

\* db.delete(product): its order_items rows are deleted, the orders stay
delete_product(tok, product_id) ==
    /\ pc = "running"
    /\ LET cu == get_current_user(tok) IN
       IF ~cu.ok THEN Reply("delete_product", 401, Unauthenticated(tok), product_id, NoReq, "", {})
       ELSE IF ~require_tester(cu) THEN Reply("delete_product", 403, cu, product_id, NoReq, "", {})
       ELSE IF product_id \notin DOMAIN products
       THEN Reply("delete_product", 404, cu, product_id, NoReq, "Product not found", {})
       ELSE /\ products' = Restrict(products, DOMAIN products \ {product_id})
            /\ order_items' = {it \in order_items : it[2] # product_id}
            /\ UNCHANGED <<users, categories, orders, seqs>>
            /\ Commit("delete_product", 204, cu, product_id, NoReq, "", {})

----------------------------------------------------------------------------
(* src/routers/orders.py *)

\* The rows list_orders returns for a requester: the ownership / user_id filter, the
\* status filter, newest first, then offset and limit
list_orders_result(cu, status, user_id, skip, limit) ==
    LET q1 == IF cu.role = "viewer"
              THEN {o \in DOMAIN orders : orders[o].user_id = cu.id}
              ELSE IF Truthy(user_id)
              THEN {o \in DOMAIN orders : orders[o].user_id = The(user_id)}
              ELSE DOMAIN orders
        q2 == IF status # None THEN {o \in q1 : orders[o].status = The(status)} ELSE q1
    IN  SeqSet(Page(DescSeq(q2), skip, limit))

list_orders(tok, status, user_id, skip, limit) ==
    /\ pc = "running"
    /\ LET cu == get_current_user(tok)
           req == [status |-> status, user_id |-> user_id, skip |-> skip, limit |-> limit]
       IN  IF ~cu.ok THEN Reply("list_orders", 401, Unauthenticated(tok), 0, req, "", {})
           ELSE Reply("list_orders", 200, cu, 0, req, "",
                      list_orders_result(cu, status, user_id, skip, limit))

\* A plausible slip: the handler declares get_current_user instead of require_tester
create_order_requires_any(cu) == require_any(cu)

\* The role dependency create_order declares: Depends(require_tester)
create_order_requires(cu) == require_tester(cu)

create_order(tok, data) ==
    /\ pc = "running"
    /\ LET cu == get_current_user(tok)
           ids == SeqSet(data.product_ids)
           found == {p \in DOMAIN products : p \in ids}
           inactive == {p \in found : ~products[p].is_active}
       IN  IF ~cu.ok THEN Reply("create_order", 401, Unauthenticated(tok), 0, data, "", {})
           ELSE IF ~create_order_requires(cu) THEN Reply("create_order", 403, cu, 0, data, "", {})
           ELSE IF Len(data.product_ids) < 1
           THEN Reply("create_order", 422, cu, 0, data, "product_ids too short", {})
           ELSE IF Cardinality(found) # Len(data.product_ids)
           THEN Reply("create_order", 400, cu, 0, data, "Products not found", ids \ found)
           ELSE IF inactive # {}
           THEN Reply("create_order", 400, cu, 0, data, "Products inactive", inactive)
           ELSE LET id == seqs.order + 1 IN
                /\ orders' = orders @@ (id :> [order_number |-> OrderNumber(id),
                                               user_id |-> cu.id,
                                               status |-> "pending",
                                               total_amount |->
                                                   SumOver([p \in found |-> products[p].price], found),
                                               shipping_address |-> data.shipping_address])
                /\ order_items' = order_items \cup {<<id, p>> : p \in found}
                /\ seqs' = [seqs EXCEPT !.order = id]
                /\ UNCHANGED <<users, categories, products>>
                /\ Commit("create_order", 201, cu, id, data, "", {})

get_order(tok, order_id) ==
    /\ pc = "running"
    /\ LET cu == get_current_user(tok) IN
       IF ~cu.ok THEN Reply("get_order", 401, Unauthenticated(tok), order_id, NoReq, "", {})
       ELSE IF order_id \notin DOMAIN orders
       THEN Reply("get_order", 404, cu, order_id, NoReq, "Order not found", {})
       ELSE IF cu.role = "viewer" /\ orders[order_id].user_id # cu.id
       THEN Reply("get_order", 403, cu, order_id, NoReq, "Cannot access other users' orders", {})
       ELSE Reply("get_order", 200, cu, order_id, NoReq, "", {})

update_order(tok, order_id, data) ==
    /\ pc = "running"
    /\ LET cu == get_current_user(tok) IN
       IF ~cu.ok THEN Reply("update_order", 401, Unauthenticated(tok), order_id, data, "", {})
       ELSE IF ~require_tester(cu) THEN Reply("update_order", 403, cu, order_id, data, "", {})
       ELSE IF order_id \notin DOMAIN orders
       THEN Reply("update_order", 404, cu, order_id, data, "Order not found", {})
       ELSE /\ orders' = [orders EXCEPT ![order_id] = Patch(@, data)]
            /\ UNCHANGED <<users, categories, products, order_items, seqs>>
            /\ Commit("update_order", 200, cu, order_id, data, "", {})

delete_order(tok, order_id) ==
    /\ pc = "running"
    /\ LET cu == get_current_user(tok) IN
       IF ~cu.ok THEN Reply("delete_order", 401, Unauthenticated(tok), order_id, NoReq, "", {})
       ELSE IF ~require_tester(cu) THEN Reply("delete_order", 403, cu, order_id, NoReq, "", {})
       ELSE IF order_id \notin DOMAIN orders
       THEN Reply("delete_order", 404, cu, order_id, NoReq, "Order not found", {})
       ELSE /\ orders' = Restrict(orders, DOMAIN orders \ {order_id})
            /\ order_items' = {it \in order_items : it[1] # order_id}
            /\ UNCHANGED <<users, categories, products, seqs>>
            /\ Commit("delete_order", 204, cu, order_id, NoReq, "", {})

\* A plausible slip: the status check placed before the ownership check
cancel_check_status_first(cu, order) ==
    IF order.status # "pending" THEN 400
    ELSE IF cu.role = "viewer" /\ order.user_id # cu.id THEN 403
    ELSE 200

\* A plausible slip: cancelling an order that is already cancelled is accepted
cancel_check_lenient(cu, order) ==
    IF cu.role = "viewer" /\ order.user_id # cu.id THEN 403
    ELSE IF order.status \notin {"pending", "cancelled"} THEN 400
    ELSE 200

\* The checks of cancel_order on an existing order, in the order of the code: the
\* status code of the rejection, or 200
cancel_check(cu, order) ==
    IF cu.role = "viewer" /\ order.user_id # cu.id THEN 403
    ELSE IF order.status # "pending" THEN 400
    ELSE 200

cancel_order(tok, order_id) ==
    /\ pc = "running"
    /\ LET cu == get_current_user(tok) IN
       IF ~cu.ok THEN Reply("cancel_order", 401, Unauthenticated(tok), order_id, NoReq, "", {})
       ELSE IF order_id \notin DOMAIN orders
       THEN Reply("cancel_order", 404, cu, order_id, NoReq, "Order not found", {})
       ELSE IF cancel_check(cu, orders[order_id]) = 403
       THEN Reply("cancel_order", 403, cu, order_id, NoReq, "Cannot cancel other users' orders", {})
       ELSE IF cancel_check(cu, orders[order_id]) = 400
       THEN Reply("cancel_order", 400, cu, order_id, NoReq, "Only pending orders can be cancelled", {})
       ELSE /\ orders' = [orders EXCEPT ![order_id].status = "cancelled"]
            /\ UNCHANGED <<users, categories, products, order_items, seqs>>
            /\ Commit("cancel_order", 200, cu, order_id, NoReq, "", {})

----------------------------------------------------------------------------
(* src/routers/admin.py *)

reset_database(tok, draw) ==
    /\ pc = "running"
    /\ LET cu == get_current_user(tok) IN
       IF ~cu.ok THEN Reply("reset_database", 401, Unauthenticated(tok), 0, NoReq, "", {})
       ELSE IF ~require_admin(cu) THEN Reply("reset_database", 403, cu, 0, NoReq, "", {})
       ELSE LET r == seed_database(clear_database(DB), seqs, draw) IN
            /\ SetStore(r.db)
            /\ seqs' = r.seqs
            /\ IF r.ok
               THEN Commit("reset_database", 200, cu, 0,
                           [users_created |-> Len(SeedUsers),
                            categories_created |-> Len(category_data),
                            products_created |-> Len(product_templates),
                            orders_created |-> SeedOrderCount],
                           "Database reset successfully", {})
               ELSE Commit("reset_database", 500, cu, 0, NoReq, "IntegrityError", {})

\* reset_database as the steps a worker takes: the dependencies are resolved, then
\* clear_database commits once and seed_database commits after the users, after the
\* categories, after the products and after the orders.  Nothing is locked between
\* the steps.  An exception in a step leaves the handler and the server answers 500.
reset_begin(w, tok, draw) ==
    /\ pc = "running"
    /\ procs[w] = Idle
    /\ LET cu == get_current_user(tok) IN
       /\ cu.ok
       /\ require_admin(cu)
       /\ procs' = [procs EXCEPT ![w] = [Idle EXCEPT !.op = "reset_database", !.step = "clear",
                                                     !.cu = cu, !.draw = draw]]
    /\ UNCHANGED <<pc, store, seqs, tokens, resp, nreq>>

\* A plausible slip: the handler catches the exception of a failed step and answers
\* as if the reset had gone through
reset_status_swallowed(ok) == 200

\* The status of the answer of a reset: the return of line 31, or the exception a
\* step raised
reset_status(ok) == IF ok THEN 200 ELSE 500

\* The reset of worker w ends and is answered
reset_end(w, ok) ==
    /\ resp' = Response("reset_database", reset_status(ok), procs[w].cu, 0,
                        IF reset_status(ok) = 200
                        THEN [users_created |-> Len(SeedUsers),
                              categories_created |-> Len(category_data),
                              products_created |-> Len(product_templates),
                              orders_created |-> SeedOrderCount]
                        ELSE NoReq,
                        IF reset_status(ok) = 200 THEN "Database reset successfully"
                        ELSE "Internal Server Error", {})
    /\ nreq' = nreq + 1
    /\ procs' = [procs EXCEPT ![w] = Idle]
    /\ UNCHANGED <<pc, tokens>>

reset_next(w, step) == procs' = [procs EXCEPT ![w].step = step]

reset_clear(w) ==
    /\ pc = "running"
    /\ procs[w].op = "reset_database" /\ procs[w].step = "clear"
    /\ SetStore(clear_database(DB))
    /\ reset_next(w, "users")
    /\ UNCHANGED <<pc, seqs, tokens, resp, nreq>>

\* A plausible slip: the users are added to the session without the commit of line
\* 48, so they reach the database only with the categories
reset_seed_users_uncommitted(w) ==
    /\ pc = "running"
    /\ procs[w].op = "reset_database" /\ procs[w].step = "users"
    /\ procs' = [procs EXCEPT ![w].step = "categories", ![w].ubase = seqs.user]
    /\ UNCHANGED <<pc, store, seqs, tokens, resp, nreq>>

\* seed.py 24-48: the three users are added and committed
reset_seed_users(w) ==
    /\ pc = "running"
    /\ procs[w].op = "reset_database" /\ procs[w].step = "users"
    /\ LET nu == Len(SeedUsers)
           newUsers == [i \in (seqs.user + 1)..(seqs.user + nu) |-> SeedUsers[i - seqs.user]]
           usersOK == \A i \in DOMAIN users : \A j \in DOMAIN newUsers :
                          /\ users[i].email # newUsers[j].email
                          /\ users[i].username # newUsers[j].username
       IN  /\ seqs' = [seqs EXCEPT !.user = @ + nu]
           /\ UNCHANGED <<categories, products, orders, order_items>>
           /\ IF usersOK
              THEN /\ users' = users @@ newUsers
                   /\ procs' = [procs EXCEPT ![w].step = "categories", ![w].ubase = seqs.user]
                   /\ UNCHANGED <<pc, tokens, resp, nreq>>
              ELSE /\ UNCHANGED users
                   /\ reset_end(w, FALSE)

\* seed.py 51-63: the five categories are added and committed
reset_seed_categories(w) ==
    /\ pc = "running"
    /\ procs[w].op = "reset_database" /\ procs[w].step = "categories"
    /\ LET nc == Len(category_data)
           newCats == [i \in (seqs.category + 1)..(seqs.category + nc) |->
                          [name |-> category_data[i - seqs.category], is_active |-> TRUE]]
           catsOK == \A i \in DOMAIN categories : \A j \in DOMAIN newCats :
                          categories[i].name # newCats[j].name
       IN  /\ seqs' = [seqs EXCEPT !.category = @ + nc]
           /\ UNCHANGED <<users, products, orders, order_items>>
           /\ IF catsOK
              THEN /\ categories' = categories @@ newCats
                   /\ procs' = [procs EXCEPT ![w].step = "products", ![w].cbase = seqs.category]
                   /\ UNCHANGED <<pc, tokens, resp, nreq>>
              ELSE /\ UNCHANGED categories
                   /\ reset_end(w, FALSE)

\* seed.py 66-103: the twenty products are added, each with the id of the category
\* object of this session, and committed.  When those categories have been deleted
\* in the meantime the step raises: on the read of the expired object's id, before
\* any insert, or on the foreign key at the insert, after the ids were drawn.
reset_seed_products(w) ==
    /\ pc = "running"
    /\ procs[w].op = "reset_database" /\ procs[w].step = "products"
    /\ LET np == Len(product_templates)
           cbase == procs[w].cbase
           cat_map(name) == cbase + (CHOOSE i \in 1..Len(category_data) : category_data[i] = name)
           mineOK == \A i \in 1..Len(category_data) : (cbase + i) \in DOMAIN categories
           newProds == [i \in (seqs.product + 1)..(seqs.product + np) |->
                          LET t == product_templates[i - seqs.product] IN
                          [name |-> t[1], price |-> t[3], stock |-> t[4],
                           sku |-> SeedSku(i - seqs.product), is_active |-> TRUE,
                           category_id |-> Some(cat_map(t[2]))]]
           prodsOK == \A i \in DOMAIN products : \A j \in DOMAIN newProds :
                          products[i].sku # newProds[j].sku
       IN  /\ UNCHANGED <<users, categories, orders, order_items>>
           /\ IF mineOK /\ prodsOK
              THEN /\ products' = products @@ newProds
                   /\ seqs' = [seqs EXCEPT !.product = @ + np]
                   /\ procs' = [procs EXCEPT ![w].step = "orders", ![w].pbase = seqs.product]
                   /\ UNCHANGED <<pc, tokens, resp, nreq>>
              ELSE /\ UNCHANGED products
                   /\ \E drawn \in (IF mineOK THEN {np} ELSE {0, np}) :
                         seqs' = [seqs EXCEPT !.product = @ + drawn]
                   /\ reset_end(w, FALSE)

\* seed.py 106-125: the ten orders are added, each with the id of a user object and
\* the prices of product objects of this session, and committed; the handler then
\* returns the counts.  When those users or products have been deleted in the
\* meantime the step raises, as in the products step.
reset_seed_orders(w) ==
    /\ pc = "running"
    /\ procs[w].op = "reset_database" /\ procs[w].step = "orders"
    /\ LET nu == Len(SeedUsers)
           ubase == procs[w].ubase
           pbase == procs[w].pbase
           order_products(i) == {pbase + x : x \in procs[w].draw[i]}
           mineOK == /\ \A i \in 1..nu : (ubase + i) \in DOMAIN users
                     /\ \A i \in 0..(SeedOrderCount - 1) : order_products(i) \subseteq DOMAIN products
           newOrders == [o \in (seqs.order + 1)..(seqs.order + SeedOrderCount) |->
                          LET i == o - seqs.order - 1 IN
                          [order_number |-> OrderNumber(o),
                           user_id |-> ubase + (i % nu) + 1,
                           status |-> OrderStatus[(i % Len(OrderStatus)) + 1],
                           total_amount |-> SumOver([p \in order_products(i) |-> products[p].price],
                                                    order_products(i)),
                           shipping_address |-> "seed address"]]
           newItems == UNION {{<<o, p>> : p \in order_products(o - seqs.order - 1)} :
                                 o \in DOMAIN newOrders}
       IN  /\ UNCHANGED <<users, categories, products>>
           /\ IF mineOK
              THEN /\ orders' = orders @@ newOrders
                   /\ order_items' = order_items \cup newItems
                   /\ seqs' = [seqs EXCEPT !.order = @ + SeedOrderCount]
                   /\ reset_end(w, TRUE)
              ELSE /\ UNCHANGED <<orders, order_items>>
                   /\ \E drawn \in {0, SeedOrderCount} :
                         seqs' = [seqs EXCEPT !.order = @ + drawn]
                   /\ reset_end(w, FALSE)

get_stats(tok) ==
    /\ pc = "running"
    /\ LET cu == get_current_user(tok) IN
       IF ~cu.ok THEN Reply("get_stats", 401, Unauthenticated(tok), 0, NoReq, "", {})
       ELSE IF ~require_admin(cu) THEN Reply("get_stats", 403, cu, 0, NoReq, "", {})
       ELSE Reply("get_stats", 200, cu, 0,
                  [users |-> Cardinality(DOMAIN users),
                   categories |-> Cardinality(DOMAIN categories),
                   products |-> Cardinality(DOMAIN products),
                   orders |-> Cardinality(DOMAIN orders)],
                  "", {})

----------------------------------------------------------------------------
(* Request inputs explored *)

\* sessions (tokens of existing users) open at the same time
MaxTokens == 1
\* seeded orders a request of the orders specification addresses (the oldest ones)
MaxOrderTargets == 6

Min(S) == CHOOSE m \in S : \A x \in S : m <= x

RECURSIVE Lowest(_, _)
Lowest(S, k) == IF S = {} \/ k = 0 THEN {}
                ELSE {Min(S)} \cup Lowest(S \ {Min(S)}, k - 1)

\* ids a request addresses in a table: the oldest row, the newest row, no row
Oldest(tbl) == Lowest(DOMAIN tbl, 1)
Newest(tbl) == IF DOMAIN tbl = {} THEN {} ELSE {Max(DOMAIN tbl)}
Missing == {0}

Credentials == {<<"admin", "admin123">>, <<"tester", "tester123">>, <<"viewer", "viewer123">>,
                <<"alice", "alice123">>, <<"admin", "wrong">>}

Registrations == {
    [email |-> "alice@qa-test.com", username |-> "alice", password |-> "alice123", role |-> "admin"],
    [email |-> "admin@qa-test.com", username |-> "bob", password |-> "bob12345", role |-> "tester"] }

UserUpdates == { [role |-> "viewer"], [is_active |-> FALSE], [username |-> "tester"] }

CategoryCreates == { [name |-> "Toys"], [name |-> "Books"] }

CategoryUpdates == { [name |-> "Books"], [is_active |-> FALSE] }

ProductCreates == {
    [name |-> "Robot", price |-> 999, stock |-> 5, sku |-> <<"T", 1>>, category_id |-> None],
    [name |-> "Robot", price |-> 999, stock |-> 5, sku |-> SeedSku(1), category_id |-> None],
    [name |-> "Robot", price |-> 999, stock |-> 5, sku |-> <<"T", 1>>, category_id |-> Some(0)] }

ProductUpdates == { [price |-> 100], [is_active |-> FALSE], [sku |-> SeedSku(2)] }

OrderUpdates == { [status |-> "shipped"], [shipping_address |-> "elsewhere"] }

\* product id lists of a create-order request over the products P: one product, two
\* products, one product named twice, one product and an id that does not exist
ProductIdLists(P) ==
    {<<p>> : p \in P} \cup {<<p, q>> : p, q \in P} \cup {<<p, 0>> : p \in P}

OrderCreate(l) == [product_ids |-> l, shipping_address |-> "home"]

\* default page size of the listings
DefaultLimit == 20

Sessions == {t \in tokens : t.sub \in DOMAIN users}

\* A login that opens a session needs a free session slot; any other request counts
\* against the request budget
LoginAllowed(c) ==
    IF authenticate(c[1], c[2]).status = 200
    THEN Cardinality(Sessions) < MaxTokens
    ELSE nreq < MaxReq

----------------------------------------------------------------------------
(* Specification: every handler, sequential requests *)

Next ==
    \/ \E d \in Draws : lifespan(d)
    \/ nreq < MaxReq /\ restart
    \/ \E c \in Credentials : LoginAllowed(c) /\ login(c[1], c[2])
    \/ nreq < MaxReq /\ \E r \in Registrations : register(r)
    \/ nreq < MaxReq /\ \E t \in tokens : get_me(t)
    \/ nreq < MaxReq /\ \E t \in tokens : list_users(t, None, None)
    \/ nreq < MaxReq /\ \E t \in tokens, u \in Oldest(users) : get_user(t, u)
    \/ nreq < MaxReq /\ \E t \in tokens, u \in Newest(users), d \in UserUpdates : update_user(t, u, d)
    \/ nreq < MaxReq /\ \E t \in tokens, u \in Oldest(users) \cup Newest(users) : delete_user(t, u)
    \/ nreq < MaxReq /\ \E t \in tokens : list_categories(t, None)
    \/ nreq < MaxReq /\ \E t \in tokens, d \in CategoryCreates : create_category(t, d)
    \/ nreq < MaxReq /\ \E t \in tokens, c \in Oldest(categories) : get_category(t, c)
    \/ nreq < MaxReq /\ \E t \in tokens, c \in Oldest(categories), d \in CategoryUpdates :
          update_category(t, c, d)
    \/ nreq < MaxReq /\ \E t \in tokens, c \in Oldest(categories) \cup Missing : delete_category(t, c)
    \/ nreq < MaxReq /\ \E t \in tokens : list_products(t, None, None)
    \/ nreq < MaxReq /\ \E t \in tokens, d \in ProductCreates : create_product(t, d)
    \/ nreq < MaxReq /\ \E t \in tokens, p \in Oldest(products) : get_product(t, p)
    \/ nreq < MaxReq /\ \E t \in tokens, p \in Oldest(products), d \in ProductUpdates :
          update_product(t, p, d)
    \/ nreq < MaxReq /\ \E t \in tokens, p \in Oldest(products) \cup Missing : delete_product(t, p)
    \/ nreq < MaxReq /\ \E t \in tokens : list_orders(t, None, None, 0, DefaultLimit)
    \/ nreq < MaxReq /\ \E t \in tokens, l \in ProductIdLists(Oldest(products)) :
          create_order(t, OrderCreate(l))
    \/ nreq < MaxReq /\ \E t \in tokens, o \in Oldest(orders) : get_order(t, o)
    \/ nreq < MaxReq /\ \E t \in tokens, o \in Oldest(orders), d \in OrderUpdates : update_order(t, o, d)
    \/ nreq < MaxReq /\ \E t \in tokens, o \in Oldest(orders) \cup Missing : delete_order(t, o)
    \/ nreq < MaxReq /\ \E t \in tokens, o \in Oldest(orders) : cancel_order(t, o)
    \/ nreq < MaxReq /\ \E t \in tokens, d \in Draws : reset_database(t, d)
    \/ nreq < MaxReq /\ \E t \in tokens : get_stats(t)

Spec == Init /\ [][Next]_vars

----------------------------------------------------------------------------
(* Specification of the orders router: the order handlers on the oldest seeded    *)
(* orders (every status, every owner), with product updates and deletions between *)

OrderTargets == Lowest(DOMAIN orders, MaxOrderTargets) \cup Newest(orders) \cup Missing

OrderProducts == Lowest(DOMAIN products, 2)

NextOrders ==
    \/ \E d \in Draws : lifespan(d)
    \/ \E c \in Credentials : LoginAllowed(c) /\ login(c[1], c[2])
    \/ nreq < MaxReq /\ \E t \in tokens, p \in Oldest(products), d \in ProductUpdates :
          update_product(t, p, d)
    \/ nreq < MaxReq /\ \E t \in tokens, p \in Oldest(products) : delete_product(t, p)
    \/ nreq < MaxReq /\ \E t \in tokens, s \in {None, Some("pending")},
                           u \in {None, Some(0)} \cup {Some(x) : x \in Newest(users)},
                           k \in {0, 1} :
          list_orders(t, s, u, k, DefaultLimit)
    \/ nreq < MaxReq /\ \E t \in tokens, l \in ProductIdLists(OrderProducts) \cup {<< >>} :
          create_order(t, OrderCreate(l))
    \/ nreq < MaxReq /\ \E t \in tokens, o \in OrderTargets : get_order(t, o)
    \/ nreq < MaxReq /\ \E t \in tokens, o \in Oldest(orders), d \in OrderUpdates : update_order(t, o, d)
    \/ nreq < MaxReq /\ \E t \in tokens, o \in Oldest(orders) : delete_order(t, o)
    \/ nreq < MaxReq /\ \E t \in tokens, o \in OrderTargets : cancel_order(t, o)

SpecOrders == Init /\ [][NextOrders]_vars

----------------------------------------------------------------------------
(* Specification of the uniqueness checks: register and the create and update      *)
(* handlers of users, categories and products, with values that are new, that are  *)
(* the record's own and that belong to another record                              *)

UniqueRegistrations ==
    Registrations \cup {
    [email |-> "carol@qa-test.com", username |-> "admin", password |-> "carol123", role |-> "viewer"],
    [email |-> "admin@qa-test.com", username |-> "admin", password |-> "carol123", role |-> "viewer"] }

\* partial updates of a user: the email or the username of any existing user (the
\* target's own included), a new username, and both fields at once
UniqueUserUpdates ==
    {[email |-> users[v].email] : v \in DOMAIN users}
        \cup {[username |-> users[v].username] : v \in DOMAIN users}
        \cup {[email |-> users[v].email, username |-> users[w].username] :
                  v \in Oldest(users), w \in Newest(users)}
        \cup {[username |-> "carol"]}

UniqueCategories == Lowest(DOMAIN categories, 2)

UniqueCategoryUpdates ==
    {[name |-> categories[c].name] : c \in UniqueCategories} \cup {[name |-> "Toys"]}

UniqueProducts == Lowest(DOMAIN products, 2)

UniqueProductUpdates ==
    {[sku |-> products[p].sku] : p \in UniqueProducts} \cup {[sku |-> <<"T", 1>>]}

\* category references of a create-product request: none, 0, a negative id, an id
\* the sequence has not handed out yet, an existing category
CategoryRefs ==
    {None, Some(0), Some(-1), Some(seqs.category + 1)} \cup {Some(c) : c \in Oldest(categories)}

UniqueProductCreates ==
    {[name |-> "Robot", price |-> 999, stock |-> 5, sku |-> k, category_id |-> c] :
        k \in {<<"T", 1>>, SeedSku(1)}, c \in CategoryRefs}

NextUnique ==
    \/ \E d \in Draws : lifespan(d)
    \/ \E c \in Credentials : LoginAllowed(c) /\ login(c[1], c[2])
    \/ nreq < MaxReq /\ \E r \in UniqueRegistrations : register(r)
    \/ nreq < MaxReq /\ \E t \in tokens, u \in Oldest(users) \cup Newest(users),
                           d \in UniqueUserUpdates :
          update_user(t, u, d)
    \/ nreq < MaxReq /\ \E t \in tokens, d \in CategoryCreates : create_category(t, d)
    \/ nreq < MaxReq /\ \E t \in tokens, c \in UniqueCategories, d \in UniqueCategoryUpdates :
          update_category(t, c, d)
    \/ nreq < MaxReq /\ \E t \in tokens, d \in UniqueProductCreates : create_product(t, d)
    \/ nreq < MaxReq /\ \E t \in tokens, p \in UniqueProducts, d \in UniqueProductUpdates :
          update_product(t, p, d)

SpecUnique == Init /\ [][NextUnique]_vars

----------------------------------------------------------------------------
(* Specification of accounts and sessions: logins with right and wrong passwords, *)
(* role changes, deactivations and deletions of users between the requests of     *)
(* the sessions that are open                                                     *)

\* sessions open at the same time in the accounts specification
MaxSessions == 2

AccountCredentials ==
    Credentials \cup {<<"viewer", "wrong">>, <<"tester", "wrong">>, <<"nobody", "nobody123">>}

AccountUpdates == { [role |-> "viewer"], [role |-> "admin"], [is_active |-> FALSE] }

AccountLoginAllowed(c) ==
    IF authenticate(c[1], c[2]).status = 200
    THEN Cardinality(Sessions) < MaxSessions
    ELSE nreq < MaxReq

NextAccounts ==
    \/ \E d \in Draws : lifespan(d)
    \/ \E c \in AccountCredentials : AccountLoginAllowed(c) /\ login(c[1], c[2])
    \/ nreq < MaxReq /\ \E t \in tokens : get_me(t)
    \/ nreq < MaxReq /\ \E t \in tokens, u \in DOMAIN users, d \in AccountUpdates :
          update_user(t, u, d)
    \/ nreq < MaxReq /\ \E t \in tokens, u \in DOMAIN users : delete_user(t, u)
    \/ nreq < MaxReq /\ \E t \in tokens, d \in CategoryCreates : create_category(t, d)
    \/ nreq < MaxReq /\ \E t \in tokens, u \in {None} \cup {Some(x) : x \in Oldest(users)} :
          list_orders(t, None, u, 0, DefaultLimit)
    \/ nreq < MaxReq /\ \E t \in tokens, o \in Oldest(orders) : get_order(t, o)
    \/ nreq < MaxReq /\ \E t \in tokens : get_stats(t)

SpecAccounts == Init /\ [][NextAccounts]_vars

----------------------------------------------------------------------------
(* Specification of resets that run at the same time: two workers take the steps   *)
(* of reset_database in any interleaving, while logins and the statistics request  *)
(* are served                                                                      *)

NextReset ==
    \/ \E d \in Draws : lifespan(d)
    \/ \E c \in {<<"admin", "admin123">>} : LoginAllowed(c) /\ login(c[1], c[2])
    \/ nreq < MaxReq /\ \E t \in tokens : get_stats(t)
    \/ nreq < MaxReq /\ \E w \in Workers, t \in tokens : reset_begin(w, t, Draw(1))
    \/ \E w \in Workers : reset_clear(w)
    \/ \E w \in Workers : reset_seed_users(w)
    \/ \E w \in Workers : reset_seed_categories(w)
    \/ \E w \in Workers : reset_seed_products(w)
    \/ \E w \in Workers : reset_seed_orders(w)

SpecReset == Init /\ [][NextReset]_vars

----------------------------------------------------------------------------
(* Specification of user deletions that run at the same time: two workers take the *)
(* steps of delete_user in any interleaving, between registrations, logins and     *)
(* restarts                                                                        *)

\* requests handled in one behaviour of the deletions specification
MaxRaceReq == 5

RaceCredentials == {<<"admin", "admin123">>, <<"alice", "alice123">>}

RaceRegistrations == {r \in Registrations : r.role = "admin"}

RaceLoginAllowed(c) ==
    IF authenticate(c[1], c[2]).status = 200
    THEN Cardinality(Sessions) < MaxSessions
    ELSE nreq < MaxRaceReq

\* A start on an empty users table is explored whatever the number of requests
NextRace ==
    \/ \E d \in Draws : lifespan(d)
    \/ (nreq < MaxRaceReq \/ DOMAIN users = {}) /\ restart
    \/ \E c \in RaceCredentials : RaceLoginAllowed(c) /\ login(c[1], c[2])
    \/ nreq < MaxRaceReq /\ \E r \in RaceRegistrations : register(r)
    \/ nreq < MaxRaceReq /\ \E w \in Workers, t \in tokens, u \in DOMAIN users :
          delete_user_begin(w, t, u)
    \/ \E w \in Workers : delete_user_body(w)

SpecRace == Init /\ [][NextRace]_vars

----------------------------------------------------------------------------
(* Properties *)

\* A step that handles one request of a running process
RequestStep == pc = "running" /\ pc' = "running" /\ nreq' # nreq

WriteOps == {"update_user", "delete_user",
             "create_category", "update_category", "delete_category",
             "create_product", "update_product", "delete_product",
             "create_order", "update_order", "delete_order"}

AdminOnlyOps == {"update_user", "delete_user", "reset_database", "get_stats"}

Denied(r) == r.status = 403

\* C1: write authorization follows the role matrix.  A viewer is denied (403, store
\* unchanged) every create, update and delete of the users, categories, products and
\* orders routers; a tester is denied update and delete on users and the admin
\* operations reset and stats, and is not denied any create, update or delete on
\* categories, products and orders; an admin is denied nothing.
C1_RoleMatrix ==
    [][RequestStep =>
        /\ (resp'.role = "viewer" /\ resp'.op \in WriteOps \cup AdminOnlyOps)
              => (Denied(resp') /\ UNCHANGED store)
        /\ (resp'.role = "tester" /\ resp'.op \in AdminOnlyOps)
              => (Denied(resp') /\ UNCHANGED store)
        /\ (resp'.role = "tester" /\ resp'.op \in WriteOps \ AdminOnlyOps) => ~Denied(resp')
        /\ resp'.role = "admin" => ~Denied(resp')]_vars

\* C1 witness: a viewer was refused a create-order request
C1_Witness == resp.op = "create_order" /\ resp.role = "viewer" /\ resp.status = 403

\* The rows a listing with these filters is to return, newest first, paged
Listing(req, rows) ==
    SeqSet(Page(DescSeq({o \in rows :
                    /\ req.user_id # None => orders[o].user_id = The(req.user_id)
                    /\ req.status # None => orders[o].status = The(req.status)}),
                req.skip, req.limit))

\* C2: list-orders is never denied; called by a viewer it returns only orders the
\* viewer owns, whatever filters are supplied; called by an admin or a tester it
\* returns the orders that match the status and user_id filters.
C2_ListOrders ==
    (resp.op = "list_orders" /\ resp.role \in UserRole) =>
        /\ resp.status = 200
        /\ resp.role = "viewer" => \A o \in resp.ids : orders[o].user_id = resp.uid
        /\ resp.role \in {"admin", "tester"} => resp.ids = Listing(resp.req, DOMAIN orders)

\* The viewer half of C2: the listing is narrowed to the viewer's own orders, whatever
\* the filters, and never denied; a supplied user_id filter has no effect
C2_ViewerOnlyOwn ==
    (resp.op = "list_orders" /\ resp.role = "viewer") =>
        /\ resp.status = 200
        /\ resp.ids = Listing([resp.req EXCEPT !.user_id = None],
                              {o \in DOMAIN orders : orders[o].user_id = resp.uid})

\* The admin and tester half of C2 for a user_id filter other than 0
C2_FilterHonoured ==
    (resp.op = "list_orders" /\ resp.role \in {"admin", "tester"} /\ resp.req.user_id # Some(0)) =>
        /\ resp.status = 200
        /\ resp.ids = Listing(resp.req, DOMAIN orders)

\* C3: for a viewer, get-order and cancel-order on an existing order of another user
\* fail with 403 and leave the store unchanged whatever the order's status; on the
\* viewer's own order they proceed; admin and tester are never rejected with 403.
C3_ViewerForeignOrder ==
    [][(RequestStep /\ resp'.op \in {"get_order", "cancel_order"}
                    /\ resp'.target \in DOMAIN orders) =>
        LET o == orders[resp'.target] IN
        /\ (resp'.role = "viewer" /\ o.user_id # resp'.uid)
              => (resp'.status = 403 /\ UNCHANGED store)
        /\ (resp'.role = "viewer" /\ o.user_id = resp'.uid /\ resp'.op = "get_order")
              => resp'.status = 200
        /\ (resp'.role = "viewer" /\ o.user_id = resp'.uid /\ resp'.op = "cancel_order")
              => resp'.status = (IF o.status = "pending" THEN 200 ELSE 400)
        /\ resp'.role \in {"admin", "tester"} => resp'.status # 403]_vars

\* C3 witness: a viewer was refused the cancellation of another user's order that
\* is not pending
C3_Witness ==
    /\ resp.op = "cancel_order" /\ resp.role = "viewer" /\ resp.status = 403
    /\ resp.target \in DOMAIN orders
    /\ orders[resp.target].status # "pending"

\* C4: after every successful reset the store holds exactly 3 users, 5 categories,
\* 20 products and 10 orders, and the three fixed credentials log in with the roles
\* admin, tester and viewer.
C4_ResetShape ==
    (resp.op = "reset_database" /\ resp.status = 200) =>
        /\ Cardinality(DOMAIN users) = 3
        /\ Cardinality(DOMAIN categories) = 5
        /\ Cardinality(DOMAIN products) = 20
        /\ Cardinality(DOMAIN orders) = 10
        /\ \A r \in UserRole :
              LET a == authenticate(r, r \o "123") IN a.status = 200 /\ a.role = r

\* C4 witness: a reset succeeded after a registration or an earlier reset
C4_Witness == resp.op = "reset_database" /\ resp.status = 200 /\ seqs.user > 6

\* C5: at process start the seed runs, once, exactly when the users table is empty;
\* otherwise the start inserts and deletes nothing.
C5_StartupSeed ==
    [][(pc = "boot" /\ pc' # "boot") =>
        IF DOMAIN users = {}
        THEN /\ resp'.detail = "seeded"
             /\ Cardinality(DOMAIN users') = 3
             /\ Cardinality(DOMAIN categories') = Cardinality(DOMAIN categories) + 5
             /\ Cardinality(DOMAIN products') = Cardinality(DOMAIN products) + 20
             /\ Cardinality(DOMAIN orders') = Cardinality(DOMAIN orders) + 10
        ELSE /\ resp'.detail # "seeded"
             /\ pc' = "running"
             /\ UNCHANGED <<store, seqs>>]_vars

\* C5 witness: a start that did not seed, on a store whose categories are no longer
\* the seeded five
C5_Witness ==
    /\ pc = "running" /\ resp.op = "lifespan" /\ resp.detail # "seeded"
    /\ Cardinality(DOMAIN categories) # 5

RECURSIVE PriceSum(_)
PriceSum(ids) == IF ids = << >> THEN 0 ELSE products[Head(ids)].price + PriceSum(Tail(ids))

\* A create-order request by a tester or an admin with a non-empty list
CreateOrderStep ==
    /\ RequestStep
    /\ resp'.op = "create_order"
    /\ resp'.role \in {"tester", "admin"}
    /\ Len(resp'.req.product_ids) >= 1

\* C6: create-order by a tester or admin with a non-empty list of product ids that
\* all exist and are active stores a new pending order of the requester whose
\* total_amount is the sum of the prices of the listed products, for every such
\* list, a list that names a product twice included.
C6_CreateOrder ==
    [][(/\ CreateOrderStep
        /\ \A p \in SeqSet(resp'.req.product_ids) :
              p \in DOMAIN products /\ products[p].is_active) =>
        /\ resp'.status = 201
        /\ resp'.target \notin DOMAIN orders
        /\ resp'.target \in DOMAIN orders'
        /\ orders'[resp'.target].status = "pending"
        /\ orders'[resp'.target].user_id = resp'.uid
        /\ orders'[resp'.target].total_amount = PriceSum(resp'.req.product_ids)]_vars

\* The statement of C6 for lists that name no product twice
C6_DistinctIds ==
    [][(/\ CreateOrderStep
        /\ Cardinality(SeqSet(resp'.req.product_ids)) = Len(resp'.req.product_ids)
        /\ \A p \in SeqSet(resp'.req.product_ids) :
              p \in DOMAIN products /\ products[p].is_active) =>
        /\ resp'.status = 201
        /\ resp'.target \notin DOMAIN orders
        /\ resp'.target \in DOMAIN orders'
        /\ orders'[resp'.target].status = "pending"
        /\ orders'[resp'.target].user_id = resp'.uid
        /\ orders'[resp'.target].total_amount = PriceSum(resp'.req.product_ids)]_vars

\* C7: create-order is rejected with 400 when a listed id does not exist, the error
\* enumerating exactly the missing ids, or, all existing, when a listed product is
\* inactive, the error enumerating exactly the inactive ids; no order row and no
\* association row is created.
C7_CreateOrderRejected ==
    [][CreateOrderStep =>
        LET ids == SeqSet(resp'.req.product_ids)
            missing == ids \ DOMAIN products
            inactive == {p \in ids \cap DOMAIN products : ~products[p].is_active}
        IN  /\ missing # {} =>
                  /\ resp'.status = 400 /\ resp'.detail = "Products not found"
                  /\ resp'.ids = missing
                  /\ UNCHANGED <<orders, order_items>>
            /\ (missing = {} /\ inactive # {}) =>
                  /\ resp'.status = 400 /\ resp'.detail = "Products inactive"
                  /\ resp'.ids = inactive
                  /\ UNCHANGED <<orders, order_items>>]_vars

\* The statement of C7 for lists that name no product twice
C7_DistinctIds ==
    [][(/\ CreateOrderStep
        /\ Cardinality(SeqSet(resp'.req.product_ids)) = Len(resp'.req.product_ids)) =>
        LET ids == SeqSet(resp'.req.product_ids)
            missing == ids \ DOMAIN products
            inactive == {p \in ids \cap DOMAIN products : ~products[p].is_active}
        IN  /\ missing # {} =>
                  /\ resp'.status = 400 /\ resp'.detail = "Products not found"
                  /\ resp'.ids = missing
                  /\ UNCHANGED <<orders, order_items>>
            /\ (missing = {} /\ inactive # {}) =>
                  /\ resp'.status = 400 /\ resp'.detail = "Products inactive"
                  /\ resp'.ids = inactive
                  /\ UNCHANGED <<orders, order_items>>]_vars

\* C8: the total_amount of an order never changes while the order exists.
C8_TotalSnapshot ==
    [][\A o \in DOMAIN orders \cap DOMAIN orders' :
          orders'[o].total_amount = orders[o].total_amount]_vars

\* C8 witness: an order whose total_amount is no longer the sum of the current
\* prices of the products it references
C8_Witness ==
    \E o \in DOMAIN orders :
        orders[o].total_amount #
            SumOver([p \in DOMAIN products |-> products[p].price],
                    {p \in DOMAIN products : <<o, p>> \in order_items})

\* C9: cancel on an existing order, by a caller permitted on it, moves the order to
\* cancelled exactly when its status is pending; otherwise it fails with 400 and the
\* store is unchanged.
C9_CancelOnlyPending ==
    [][(/\ RequestStep /\ resp'.op = "cancel_order"
        /\ resp'.target \in DOMAIN orders
        /\ \/ resp'.role \in {"admin", "tester"}
           \/ resp'.role = "viewer" /\ orders[resp'.target].user_id = resp'.uid) =>
        IF orders[resp'.target].status = "pending"
        THEN /\ resp'.status = 200
             /\ orders' = [orders EXCEPT ![resp'.target].status = "cancelled"]
             /\ UNCHANGED <<users, categories, products, order_items>>
        ELSE /\ resp'.status = 400
             /\ UNCHANGED store]_vars

\* C9 witness: the cancellation of an order that is already cancelled was rejected
C9_Witness ==
    /\ resp.op = "cancel_order" /\ resp.status = 400
    /\ resp.target \in DOMAIN orders
    /\ orders[resp.target].status = "cancelled"

\* C10: deleting a category removes only the category row; the products that
\* referenced it have no category afterwards and are otherwise unchanged, and every
\* other product is unchanged.
C10_DeleteCategory ==
    [][(RequestStep /\ resp'.op = "delete_category" /\ resp'.status = 204) =>
        /\ categories' = Restrict(categories, DOMAIN categories \ {resp'.target})
        /\ DOMAIN products' = DOMAIN products
        /\ \A p \in DOMAIN products :
              products'[p] = IF products[p].category_id = Some(resp'.target)
                             THEN [products[p] EXCEPT !.category_id = None]
                             ELSE products[p]
        /\ UNCHANGED <<users, orders, order_items>>]_vars

\* C10 witness: a category was deleted; some products have lost their category and
\* others still have theirs
C10_Witness ==
    /\ resp.op = "delete_category" /\ resp.status = 204
    /\ \E p \in DOMAIN products : products[p].category_id = None
    /\ \E p \in DOMAIN products : products[p].category_id # None


\* C11: a successful delete-user removes the user row and exactly the orders (with
\* their association rows) of that user; the orders of every other user, the
\* products and the categories are unchanged.  In every reachable state every
\* order's user_id is the id of an existing user.
C11_DeleteUserCascade ==
    /\ [](\A o \in DOMAIN orders : orders[o].user_id \in DOMAIN users)
    /\ [][(RequestStep /\ resp'.op = "delete_user" /\ resp'.status = 204) =>
            LET kept == {o \in DOMAIN orders : orders[o].user_id # resp'.target} IN
            /\ users' = Restrict(users, DOMAIN users \ {resp'.target})
            /\ orders' = Restrict(orders, kept)
            /\ order_items' = {it \in order_items : it[1] \in kept}
            /\ UNCHANGED <<categories, products>>]_vars

\* C11 witness: a user who owned orders was deleted and orders of others remain
C11_Witness ==
    /\ resp.op = "delete_user" /\ resp.status = 204
    /\ resp.target \notin DOMAIN users
    /\ DOMAIN orders # {}
    /\ Cardinality(DOMAIN orders) < SeedOrderCount

\* C12: delete-user by an admin on the admin's own id is answered 400 (never 404)
\* and leaves the store unchanged.
C12_SelfDelete ==
    [][(RequestStep /\ resp'.op = "delete_user" /\ resp'.role = "admin"
                    /\ resp'.target = resp'.uid) =>
        /\ resp'.status = 400
        /\ resp'.detail = "Cannot delete yourself"
        /\ UNCHANGED store]_vars

\* C12 witness: an admin who owns orders was refused the deletion of the own account
C12_Witness ==
    /\ resp.op = "delete_user" /\ resp.status = 400 /\ resp.target = resp.uid
    /\ resp.uid \in DOMAIN users
    /\ \E o \in DOMAIN orders : orders[o].user_id = resp.uid


\* A create-product request that passed authorization
CreateProductStep ==
    /\ RequestStep
    /\ resp'.op = "create_product"
    /\ resp'.role \in {"tester", "admin"}

SkuTaken(sku) == \E p \in DOMAIN products : products[p].sku = sku

\* C13: create-product is rejected with 400 when the sku is the sku of an existing
\* product and, the sku being free, with 400 when a category_id is supplied that is
\* the id of no category, whatever integer it is; no product is created.
C13_CreateProductRejected ==
    [][CreateProductStep =>
        LET d == resp'.req IN
        /\ SkuTaken(d.sku) =>
              /\ resp'.status = 400 /\ resp'.detail = "SKU already exists"
              /\ UNCHANGED store
        /\ (~SkuTaken(d.sku) /\ d.category_id # None
                /\ The(d.category_id) \notin DOMAIN categories) =>
              /\ resp'.status = 400 /\ resp'.detail = "Category not found"
              /\ UNCHANGED store]_vars

\* The statement of C13 for category ids other than 0
C13_NonZeroCategory ==
    [][(CreateProductStep /\ resp'.req.category_id # Some(0)) =>
        LET d == resp'.req IN
        /\ SkuTaken(d.sku) =>
              /\ resp'.status = 400 /\ resp'.detail = "SKU already exists"
              /\ UNCHANGED store
        /\ (~SkuTaken(d.sku) /\ d.category_id # None
                /\ The(d.category_id) \notin DOMAIN categories) =>
              /\ resp'.status = 400 /\ resp'.detail = "Category not found"
              /\ UNCHANGED store]_vars


\* No two rows of a table agree on a field
UniqueField(tbl, f) == \A x, y \in DOMAIN tbl : x # y => tbl[x][f] # tbl[y][f]

\* Some row of the table other than row self holds the value (self 0: any row)
TakenBy(tbl, f, v, self) == \E x \in DOMAIN tbl : x # self /\ tbl[x][f] = v

\* An update of an existing row, past authorization, that supplies the field
UpdateStep(op, tbl, f) ==
    /\ RequestStep
    /\ resp'.op = op
    /\ resp'.status \notin {401, 403}
    /\ resp'.target \in DOMAIN tbl
    /\ f \in DOMAIN resp'.req

\* A request answered 400 with the given message and no change of the store
Conflict(detail) == resp'.status = 400 /\ resp'.detail = detail /\ UNCHANGED store

\* What a register, create or update step answers when the value it supplies is held
\* by another record, and when it is the own value of the record it updates
ConflictRules ==
    /\ (RequestStep /\ resp'.op = "register") =>
        /\ TakenBy(users, "email", resp'.req.email, 0) => Conflict("Email already registered")
        /\ (~TakenBy(users, "email", resp'.req.email, 0)
               /\ TakenBy(users, "username", resp'.req.username, 0))
              => Conflict("Username already taken")
    /\ UpdateStep("update_user", users, "email") =>
        /\ TakenBy(users, "email", resp'.req.email, resp'.target)
              => Conflict("Email already in use")
        /\ resp'.req = [email |-> users[resp'.target].email] => resp'.status = 200
    /\ UpdateStep("update_user", users, "username") =>
        /\ (TakenBy(users, "username", resp'.req.username, resp'.target)
               /\ ("email" \in DOMAIN resp'.req
                      => ~TakenBy(users, "email", resp'.req.email, resp'.target)))
              => Conflict("Username already in use")
        /\ resp'.req = [username |-> users[resp'.target].username] => resp'.status = 200
    /\ (RequestStep /\ resp'.op = "create_category" /\ resp'.status \notin {401, 403}) =>
        (TakenBy(categories, "name", resp'.req.name, 0)
              => Conflict("Category name already exists"))
    /\ UpdateStep("update_category", categories, "name") =>
        /\ TakenBy(categories, "name", resp'.req.name, resp'.target)
              => Conflict("Category name already exists")
        /\ resp'.req = [name |-> categories[resp'.target].name] => resp'.status = 200
    /\ CreateProductStep =>
        (TakenBy(products, "sku", resp'.req.sku, 0) => Conflict("SKU already exists"))
    /\ UpdateStep("update_product", products, "sku") =>
        /\ TakenBy(products, "sku", resp'.req.sku, resp'.target)
              => Conflict("SKU already exists")
        /\ resp'.req = [sku |-> products[resp'.target].sku] => resp'.status = 200

\* C14: in every reachable state no two users share an email or a username, no two
\* categories share a name and no two products share a sku.  A register, create or
\* update whose value is held by a different record is answered 400 naming the
\* field, with the store unchanged; an update that supplies the record's own current
\* value (and nothing else) is accepted.
C14_Uniqueness ==
    /\ [](/\ UniqueField(users, "email") /\ UniqueField(users, "username")
          /\ UniqueField(categories, "name") /\ UniqueField(products, "sku"))
    /\ [][ConflictRules]_vars

\* C14 witness: an update that set a user's username to the value it already had was
\* accepted after a registration
C14_Witness ==
    /\ resp.op = "update_user" /\ resp.status = 200
    /\ resp.target \in DOMAIN users
    /\ resp.req = [username |-> users[resp.target].username]
    /\ Cardinality(DOMAIN users) > Len(SeedUsers)


\* C15: login answers 200 with a token exactly when a user with the username exists,
\* the password verifies against the stored hash and the user is active; 401 exactly
\* when the username is absent or the password does not verify (also for a
\* deactivated user); 403 exactly when the user exists, the password verifies and
\* the user is not active.  Login never changes the store.
C15_Login ==
    [][resp'.op = "login" =>
        LET req == resp'.req
            found == {u \in DOMAIN users : users[u].username = req.username}
            verifies == found # {} /\ verify_password(req.password, users[The(found)].hashed_password)
            active == found # {} /\ users[The(found)].is_active
        IN  /\ resp'.status \in {200, 401, 403}
            /\ resp'.status = 200 <=> (verifies /\ active)
            /\ resp'.status = 401 <=> ~verifies
            /\ resp'.status = 403 <=> (verifies /\ ~active)
            /\ resp'.status = 200 =>
                  create_access_token(The(found), users[The(found)].role) \in tokens'
            /\ resp'.status # 200 => tokens' = tokens
            /\ UNCHANGED <<store, seqs>>]_vars

\* C15 witness: a deactivated user was refused with 401 on a wrong password
C15_Witness ==
    /\ resp.op = "login" /\ resp.status = 401
    /\ \E u \in DOMAIN users :
          /\ users[u].username = resp.req.username
          /\ ~users[u].is_active


C16_DeactivatedWitness ==
    /\ resp.op = "get_stats" /\ resp.status = 200
    /\ resp.tok.sub \in DOMAIN users
    /\ ~users[resp.tok.sub].is_active


\* The step in which a reset is answered
ResetAnswered == pc = "running" /\ resp'.op = "reset_database" /\ nreq' # nreq

\* The store holds the rows of one seed and nothing else
FullSeed(us, cs, ps, os) ==
    /\ Cardinality(DOMAIN us) = Len(SeedUsers)
    /\ {us[u].username : u \in DOMAIN us} = {SeedUsers[i].username : i \in 1..Len(SeedUsers)}
    /\ Cardinality(DOMAIN cs) = Len(category_data)
    /\ {cs[c].name : c \in DOMAIN cs} = SeqSet(category_data)
    /\ Cardinality(DOMAIN ps) = Len(product_templates)
    /\ \A p \in DOMAIN ps : ps[p].category_id # None /\ The(ps[p].category_id) \in DOMAIN cs
    /\ Cardinality(DOMAIN os) = SeedOrderCount
    /\ \A o \in DOMAIN os : os[o].user_id \in DOMAIN us

\* C17: a reset is answered 200 only by the step that commits the last part of a
\* full seed, and the store then holds exactly the seed data set; a reset one of
\* whose steps fails is answered with an error (500), never with the success
\* response, and the step that failed commits nothing.
C17_ResetAtomic ==
    [][ResetAnswered =>
        /\ resp'.status \in {200, 401, 403, 500}
        /\ resp'.status = 200 =>
              /\ FullSeed(users', categories', products', orders')
              /\ resp'.detail = "Database reset successfully"
              /\ resp'.req = [users_created |-> 3, categories_created |-> 5,
                               products_created |-> 20, orders_created |-> 10]
        /\ ~FullSeed(users', categories', products', orders') =>
              /\ resp'.status \in {401, 403, 500}
              /\ resp'.detail # "Database reset successfully"
        /\ resp'.status = 500 => UNCHANGED store]_vars

\* C17 witness: a reset was answered 500 and left users without the categories,
\* products and orders of the seed
C17_Witness ==
    /\ resp.op = "reset_database" /\ resp.status = 500
    /\ \A w \in Workers : procs[w] = Idle
    /\ DOMAIN users # {}
    /\ DOMAIN orders = {}


\* Worker w moves from one step of a reset to another
ResetStep(w, from, to) ==
    /\ procs[w].op = "reset_database" /\ procs[w].step = from
    /\ procs'[w].step = to

Rows(tbl) == Cardinality(DOMAIN tbl)

\* The rows the session of worker w has committed so far are all in the store
OwnRowsPresent(w) ==
    /\ procs[w].step \in {"categories", "products", "orders"} =>
          \A i \in 1..Len(SeedUsers) : (procs[w].ubase + i) \in DOMAIN users
    /\ procs[w].step \in {"products", "orders"} =>
          \A i \in 1..Len(category_data) : (procs[w].cbase + i) \in DOMAIN categories
    /\ procs[w].step = "orders" =>
          \A i \in 1..Len(product_templates) : (procs[w].pbase + i) \in DOMAIN products

\* C18: a reset is five commits that any step of another request may come between:
\* the clear empties the four tables at once, then the users, the categories, the
\* products and the orders of the seed are committed one table at a time.  A reset
\* whose committed rows another reset's clear has removed in between is answered
\* with an error.
C18_ResetNotIsolated ==
    [][\A w \in Workers :
        /\ ResetStep(w, "clear", "users") =>
              /\ Rows(users') = 0 /\ Rows(categories') = 0
              /\ Rows(products') = 0 /\ Rows(orders') = 0
        /\ ResetStep(w, "users", "categories") =>
              /\ Rows(users') = Rows(users) + Len(SeedUsers)
              /\ UNCHANGED <<categories, products, orders, order_items>>
        /\ ResetStep(w, "categories", "products") =>
              /\ Rows(categories') = Rows(categories) + Len(category_data)
              /\ UNCHANGED <<users, products, orders, order_items>>
        /\ ResetStep(w, "products", "orders") =>
              /\ Rows(products') = Rows(products) + Len(product_templates)
              /\ UNCHANGED <<users, categories, orders, order_items>>
        /\ (procs[w].op = "reset_database" /\ procs'[w] = Idle /\ resp'.status = 200) =>
              /\ procs[w].step = "orders"
              /\ Rows(orders') = Rows(orders) + SeedOrderCount
              /\ UNCHANGED <<users, categories, products>>
        /\ (procs[w].op = "reset_database" /\ procs'[w] = Idle /\ ~OwnRowsPresent(w)) =>
              resp'.status = 500]_vars

\* C18 witness: two resets ran at the same time and both have ended, one of them
\* with an error, and the store does not hold the seed data set
C18_Witness ==
    /\ \A w \in Workers : procs[w] = Idle
    /\ resp.op = "reset_database" /\ resp.status = 500
    /\ nreq >= 2
    /\ ~FullSeed(users, categories, products, orders)

\* A statistics request served during a reset saw the users of the seed and no
\* category, product or order
C18_ObservedWitness ==
    /\ resp.op = "get_stats" /\ resp.status = 200
    /\ resp.req = [users |-> 3, categories |-> 0, products |-> 0, orders |-> 0]
    /\ \E w \in Workers : procs[w].step = "categories"

\* Both of two resets that ran at the same time were answered with an error
C18_BothFailedWitness ==
    /\ \A w \in Workers : procs[w] = Idle
    /\ resp.op = "reset_database" /\ resp.status = 500
    /\ DOMAIN users # {} /\ DOMAIN categories # {} /\ DOMAIN products # {}
    /\ DOMAIN orders = {}


\* C19: once the process has started (the store has been seeded) the users table is
\* never empty; whenever the users table is empty the categories and products
\* tables are empty too; and so no start fails by seeding over leftover rows.
C19_UsersNeverEmpty ==
    /\ pc = "running" => DOMAIN users # {}
    /\ DOMAIN users = {} => (DOMAIN categories = {} /\ DOMAIN products = {})
    /\ pc # "failed"

\* Two admins deleted each other at the same time and the next start failed: the
\* seed ran on the empty users table and hit the categories that were left over
C19_StartFailed ==
    pc = "failed" /\ DOMAIN users # {} /\ Cardinality(DOMAIN categories) = Len(category_data)

====
